---- MODULE Spec2Model ----
(***************************************************************************)
(* A model of grequests' Response (response.go): the wrapper around a      *)
(* completed HTTP exchange, its raw body stream, its lazily created        *)
(* internal byte buffer and the operations that consume the body.          *)
(*                                                                         *)
(* One Response is modelled, used by one goroutine: every method call is   *)
(* one atomic action.  A Go panic ends the run (panicked = TRUE disables   *)
(* every action); the state it leaves is the one the code had reached,     *)
(* deferred calls included.                                                *)
(*                                                                         *)
(* The raw stream is net/http's response body: Read after Close returns    *)
(* no bytes and an error, Close itself returns nil.  A body byte is a      *)
(* token: "v" stands for a well-formed document, "x" for malformed         *)
(* content; this is all the decoders (encoding/json, encoding/xml) are     *)
(* asked to tell apart.                                                    *)
(***************************************************************************)
EXTENDS Integers, Sequences, FiniteSets, TLC

\* ---------------------------------------------------------------- bounds
MaxBody == 2      \* longest body of the exchange, in bytes
MaxCalls == 3     \* method calls made on the Response in one run

\* ---------------------------------------------------------------- values
NIL == "nil"                             \* a nil error, a nil map
NilPtr == [nil |-> TRUE]                 \* a nil pointer
Buf(s) == [buf |-> s]                    \* a *bytes.Buffer holding the unread bytes s
Tok == {"v", "x"}
Bodies == UNION {[1..n -> Tok] : n \in 0..MaxBody}
NoFail == MaxBody + 1                    \* "the stream never fails"
StatusCodes == {100, 200, 201, 404}
ContentLengths == {-1, 1}                \* -1: length unknown
Headers == {"h1"}
ReadSizes == {1, MaxBody}                \* len(p) of a caller's Read(p)
WriteLimits == {0, NoFail}               \* bytes the file takes before a write error

Min(a, b) == IF a < b THEN a ELSE b

VARIABLES
    r,              \* the Response: Ok, Error, RawResponse, StatusCode, Header, internalByteBuffer
    Body,           \* r.RawResponse.Body: data, pos, failAt, closed
    file,           \* the destination of DownloadToFile: created, data, open, closes
    last,           \* the last call and what it returned: op, err, ret, n; prev, the call before
    panicked,       \* a call panicked
    closeCount,     \* invocations of r.RawResponse.Body.Close
    rawReads,       \* invocations of r.RawResponse.Body.Read
    bufferCreated,  \* r.internalByteBuffer has been allocated at some time
    calls           \* method calls made so far

vars == <<r, Body, file, last, panicked, closeCount, rawReads, bufferCreated, calls>>

\* ------------------------------------------------------------ construction
\* buildResponse that keeps the response it was handed beside the error
buildResponse_KeepsResp(resp, err) ==
    IF err # NIL
    THEN [Ok |-> FALSE, Error |-> err, RawResponse |-> resp, StatusCode |-> 0,
          Header |-> NIL, internalByteBuffer |-> NilPtr]
    ELSE [Ok |-> resp.StatusCode <= 200 /\ resp.StatusCode < 300,
          Error |-> NIL, RawResponse |-> resp, StatusCode |-> resp.StatusCode,
          Header |-> resp.Header, internalByteBuffer |-> NilPtr]

buildResponse(resp, err) ==
    IF err # NIL
    THEN [Ok |-> FALSE, Error |-> err, RawResponse |-> NilPtr, StatusCode |-> 0,
          Header |-> NIL, internalByteBuffer |-> NilPtr]
    ELSE [Ok |-> resp.StatusCode <= 200 /\ resp.StatusCode < 300,
          Error |-> NIL, RawResponse |-> resp, StatusCode |-> resp.StatusCode,
          Header |-> resp.Header, internalByteBuffer |-> NilPtr]

\* The exchanges the HTTP client can hand over: a response with a body
\* stream, a transport error and no response, or (a failed redirect) an
\* error beside a response.
Exchanges ==
    {[resp |-> [StatusCode |-> s, Header |-> h, ContentLength |-> cl], err |-> NIL] :
        s \in StatusCodes, h \in Headers, cl \in ContentLengths}
    \cup {[resp |-> NilPtr, err |-> "transport"]}
    \cup {[resp |-> [StatusCode |-> s, Header |-> h, ContentLength |-> cl],
           err |-> "transport"] :
        s \in StatusCodes, h \in Headers, cl \in ContentLengths}

NoFile == [created |-> FALSE, data |-> <<>>, open |-> 0, closes |-> 0]
NoCall == [op |-> "none", err |-> NIL, ret |-> <<>>, n |-> 0, prev |-> "none"]

Init ==
    /\ \E x \in Exchanges : r = buildResponse(x.resp, x.err)
    /\ \E d \in Bodies : \E f \in (0..Len(d)) \cup {NoFail} :
          Body = [data |-> IF r.RawResponse = NilPtr THEN <<>> ELSE d,
                  pos |-> 0,
                  failAt |-> IF r.RawResponse = NilPtr THEN NoFail ELSE f,
                  closed |-> FALSE]
    /\ file = NoFile
    /\ last = NoCall
    /\ panicked = FALSE
    /\ closeCount = 0
    /\ rawReads = 0
    /\ bufferCreated = FALSE
    /\ calls = 0

\* ------------------------------------------------------------ the raw stream
\* Where the stream stops delivering bytes: its end, or the I/O failure.
Limit(b) == Min(b.failAt, Len(b.data))

\* One r.RawResponse.Body.Read(p) with len(p) = k.
BodyRead(b, k) ==
    IF b.closed
    THEN [data |-> <<>>, err |-> "closed", body |-> b]
    ELSE IF b.pos = Limit(b)
    THEN [data |-> <<>>, err |-> IF b.failAt = b.pos THEN "io" ELSE "EOF", body |-> b]
    ELSE LET n == Min(k, Limit(b) - b.pos) IN
         [data |-> SubSeq(b.data, b.pos + 1, b.pos + n), err |-> "nil",
          body |-> [b EXCEPT !.pos = b.pos + n]]

\* io.Copy(dst, r) reading the raw stream until Read returns an error:
\* what it read, the error it returns (nil at end-of-stream), the Read calls.
rawCopy(b) ==
    LET d == IF b.closed THEN <<>> ELSE SubSeq(b.data, b.pos + 1, Limit(b)) IN
    [data |-> d,
     err |-> IF b.closed THEN "closed"
             ELSE IF b.failAt = Limit(b) THEN "io" ELSE "nil",
     reads |-> IF Len(d) > 0 THEN 2 ELSE 1,
     body |-> IF b.closed THEN b ELSE [b EXCEPT !.pos = Limit(b)]]

\* `if err != nil && err != io.EOF { return err }; return nil`, with the
\* variant that returns end-of-stream as an error
returned_EOFIsError(err) == err

returned(err) == IF err = "EOF" THEN "nil" ELSE err

\* What a call leaves in last; prev is the call made before it.
Ret(op, err, ret, n) == [op |-> op, err |-> err, ret |-> ret, n |-> n, prev |-> last.op]

CanCall == ~panicked /\ calls < MaxCalls

\* ------------------------------------------------------------ Read, Close
Read ==
    /\ CanCall
    /\ calls' = calls + 1
    /\ \E k \in ReadSizes :
        IF r.RawResponse = NilPtr
        THEN /\ panicked' = TRUE
             /\ last' = Ret("Read", "panic", <<>>, 0)
             /\ UNCHANGED <<Body, rawReads>>
        ELSE LET res == BodyRead(Body, k) IN
             /\ Body' = res.body
             /\ rawReads' = rawReads + 1
             /\ last' = Ret("Read", res.err, res.data, Len(res.data))
             /\ UNCHANGED panicked
    /\ UNCHANGED <<r, file, closeCount, bufferCreated>>

Close ==
    /\ CanCall
    /\ calls' = calls + 1
    /\ IF r.RawResponse = NilPtr
       THEN /\ panicked' = TRUE
            /\ last' = Ret("Close", "panic", <<>>, 0)
            /\ UNCHANGED <<Body, closeCount>>
       ELSE /\ Body' = [Body EXCEPT !.closed = TRUE]
            /\ closeCount' = closeCount + 1
            /\ last' = Ret("Close", "nil", <<>>, 0)
            /\ UNCHANGED panicked
    /\ UNCHANGED <<r, file, rawReads, bufferCreated>>

\* ------------------------------------------------------------ buffering
\* respBytesBuffer without its deferred r.Close()
respBytesBuffer_NoClose ==
    IF r.internalByteBuffer # NilPtr
    THEN [buf |-> r.internalByteBuffer.buf, body |-> Body, closes |-> 0, reads |-> 0,
          created |-> FALSE, err |-> "nil", panic |-> FALSE]
    ELSE IF r.RawResponse = NilPtr
    THEN [buf |-> <<>>, body |-> Body, closes |-> 0, reads |-> 0,
          created |-> TRUE, err |-> "panic", panic |-> TRUE]
    ELSE IF r.RawResponse.ContentLength < 0
    THEN [buf |-> <<>>, body |-> Body, closes |-> 0, reads |-> 0,
          created |-> TRUE, err |-> "panic", panic |-> TRUE]
    ELSE LET c == rawCopy(Body) IN
         [buf |-> c.data, body |-> c.body, closes |-> 0,
          reads |-> c.reads, created |-> TRUE, err |-> c.err, panic |-> FALSE]

\* respBytesBuffer without the early return on an existing buffer
respBytesBuffer_NoGuard ==
    IF r.RawResponse = NilPtr
    THEN [buf |-> <<>>, body |-> Body, closes |-> 0, reads |-> 0,
          created |-> TRUE, err |-> "panic", panic |-> TRUE]
    ELSE IF r.RawResponse.ContentLength < 0
    THEN [buf |-> <<>>, body |-> [Body EXCEPT !.closed = TRUE], closes |-> 1, reads |-> 0,
          created |-> TRUE, err |-> "panic", panic |-> TRUE]
    ELSE LET c == rawCopy(Body) IN
         [buf |-> c.data, body |-> [c.body EXCEPT !.closed = TRUE], closes |-> 1,
          reads |-> c.reads, created |-> TRUE, err |-> c.err, panic |-> FALSE]

\* respBytesBuffer on the current state: the buffer, the stream and the
\* counters it leaves, the error it returns, whether it panicked.
respBytesBuffer ==
    IF r.internalByteBuffer # NilPtr
    THEN [buf |-> r.internalByteBuffer.buf, body |-> Body, closes |-> 0, reads |-> 0,
          created |-> FALSE, err |-> "nil", panic |-> FALSE]
    ELSE IF r.RawResponse = NilPtr
    THEN \* r.RawResponse.ContentLength and the deferred r.Close() dereference nil
         [buf |-> <<>>, body |-> Body, closes |-> 0, reads |-> 0,
          created |-> TRUE, err |-> "panic", panic |-> TRUE]
    ELSE IF r.RawResponse.ContentLength < 0
    THEN \* Grow panics on a negative count; the deferred r.Close() still runs
         [buf |-> <<>>, body |-> [Body EXCEPT !.closed = TRUE], closes |-> 1, reads |-> 0,
          created |-> TRUE, err |-> "panic", panic |-> TRUE]
    ELSE LET c == rawCopy(Body) IN
         [buf |-> c.data, body |-> [c.body EXCEPT !.closed = TRUE], closes |-> 1,
          reads |-> c.reads, created |-> TRUE, err |-> c.err, panic |-> FALSE]

\* The state change common to respBytesBuffer, Bytes and String.
Buffering(b) ==
    /\ r' = [r EXCEPT !.internalByteBuffer = Buf(b.buf)]
    /\ Body' = b.body
    /\ closeCount' = closeCount + b.closes
    /\ rawReads' = rawReads + b.reads
    /\ bufferCreated' = (bufferCreated \/ b.created)
    /\ panicked' = b.panic
    /\ UNCHANGED file

\* What Bytes and String return after respBytesBuffer: nothing on an
\* error, else the buffer's bytes; with the variant that ignores the error
accessorResult_IgnoresErr(b) == b.buf

accessorResult(b) == IF b.err # "nil" THEN <<>> ELSE b.buf

CallRespBytesBuffer ==
    /\ CanCall
    /\ calls' = calls + 1
    /\ LET b == respBytesBuffer IN
        /\ Buffering(b)
        /\ last' = Ret("respBytesBuffer", b.err, <<>>, 0)

Bytes ==
    /\ CanCall
    /\ calls' = calls + 1
    /\ LET b == respBytesBuffer IN
        /\ Buffering(b)
        /\ last' = Ret("Bytes", IF b.panic THEN "panic" ELSE "nil",
                       accessorResult(b), 0)

String ==
    /\ CanCall
    /\ calls' = calls + 1
    /\ LET b == respBytesBuffer IN
        /\ Buffering(b)
        /\ last' = Ret("String", IF b.panic THEN "panic" ELSE "nil",
                       accessorResult(b), 0)

ClearInternalBuffer ==
    /\ CanCall
    /\ calls' = calls + 1
    /\ IF r.internalByteBuffer = NilPtr
       THEN \* Reset on a nil *bytes.Buffer dereferences nil
            /\ panicked' = TRUE
            /\ last' = Ret("ClearInternalBuffer", "panic", <<>>, 0)
            /\ UNCHANGED r
       ELSE /\ r' = [r EXCEPT !.internalByteBuffer = NilPtr]
            /\ last' = Ret("ClearInternalBuffer", "nil", <<>>, 0)
            /\ UNCHANGED panicked
    /\ UNCHANGED <<Body, file, closeCount, rawReads, bufferCreated>>

\* ------------------------------------------------------------ decoding
getInternalReader == IF r.internalByteBuffer # NilPtr THEN "buffer" ELSE "raw"

\* What a decoder makes of the first bytes it is given.
DecodeChunk(chunk) ==
    IF chunk = <<>> THEN "EOF" ELSE IF Head(chunk) = "v" THEN "nil" ELSE "syntax"

\* Decoder.Decode on getInternalReader(): the decoder's first Read asks for
\* more than a whole body, so it takes every byte the source has ready.
Decode ==
    IF getInternalReader = "buffer"
    THEN [err |-> DecodeChunk(r.internalByteBuffer.buf), buf |-> Buf(<<>>),
          body |-> Body, reads |-> 0, panic |-> FALSE]
    ELSE IF r.RawResponse = NilPtr
    THEN [err |-> "panic", buf |-> r.internalByteBuffer,
          body |-> Body, reads |-> 0, panic |-> TRUE]
    ELSE LET res == BodyRead(Body, MaxBody) IN
         [err |-> IF res.err # "nil" THEN res.err ELSE DecodeChunk(res.data),
          buf |-> r.internalByteBuffer, body |-> res.body, reads |-> 1, panic |-> FALSE]

\* Json and Xml: decode, then the deferred r.Close().
Decoding(op) ==
    /\ LET d == Decode IN
        /\ r' = [r EXCEPT !.internalByteBuffer = d.buf]
        /\ rawReads' = rawReads + d.reads
        /\ IF r.RawResponse = NilPtr
           THEN /\ panicked' = TRUE
                /\ Body' = d.body
                /\ UNCHANGED closeCount
                /\ last' = Ret(op, "panic", <<>>, 0)
           ELSE /\ panicked' = d.panic
                /\ Body' = [d.body EXCEPT !.closed = TRUE]
                /\ closeCount' = closeCount + 1
                /\ last' = Ret(op, returned(d.err), <<>>, 0)
    /\ UNCHANGED <<file, bufferCreated>>

Xml ==
    /\ CanCall
    /\ calls' = calls + 1
    /\ \E charsetReader \in BOOLEAN : Decoding("Xml")

Json ==
    /\ CanCall
    /\ calls' = calls + 1
    /\ Decoding("Json")

\* ------------------------------------------------------------ download
\* The copy that stops one byte short of the source and reports success
fileCopy_Short(w) ==
    IF getInternalReader = "buffer"
    THEN LET src == r.internalByteBuffer.buf
             m == Min(w, Len(src)) IN
         [written |-> SubSeq(src, 1, m - 1),
          err |-> IF Len(src) > w THEN "write" ELSE "nil",
          buf |-> Buf(SubSeq(src, m + 1, Len(src))),
          body |-> Body, reads |-> 0, panic |-> FALSE]
    ELSE IF r.RawResponse = NilPtr
    THEN [written |-> <<>>, err |-> "panic", buf |-> r.internalByteBuffer,
          body |-> Body, reads |-> 0, panic |-> TRUE]
    ELSE LET c == rawCopy(Body) IN
         IF Len(c.data) > w
         THEN [written |-> SubSeq(c.data, 1, w), err |-> "write",
               buf |-> r.internalByteBuffer, body |-> c.body, reads |-> 1, panic |-> FALSE]
         ELSE [written |-> SubSeq(c.data, 1, Len(c.data) - 1), err |-> c.err,
               buf |-> r.internalByteBuffer, body |-> c.body, reads |-> c.reads,
               panic |-> FALSE]

\* The copy that goes through the internal buffer: what it read from the
\* raw stream stays in r.internalByteBuffer
fileCopy_Buffers(w) ==
    IF getInternalReader = "buffer"
    THEN LET src == r.internalByteBuffer.buf
             m == Min(w, Len(src)) IN
         [written |-> SubSeq(src, 1, m),
          err |-> IF Len(src) > w THEN "write" ELSE "nil",
          buf |-> Buf(SubSeq(src, m + 1, Len(src))),
          body |-> Body, reads |-> 0, panic |-> FALSE]
    ELSE IF r.RawResponse = NilPtr
    THEN [written |-> <<>>, err |-> "panic", buf |-> r.internalByteBuffer,
          body |-> Body, reads |-> 0, panic |-> TRUE]
    ELSE LET c == rawCopy(Body) IN
         IF Len(c.data) > w
         THEN [written |-> SubSeq(c.data, 1, w), err |-> "write",
               buf |-> Buf(c.data), body |-> c.body, reads |-> 1, panic |-> FALSE]
         ELSE [written |-> c.data, err |-> c.err,
               buf |-> Buf(c.data), body |-> c.body, reads |-> c.reads,
               panic |-> FALSE]

\* io.Copy(fd, r.getInternalReader()) into a file that takes w bytes:
\* the bytes written, the error, and what is left of the source.
fileCopy(w) ==
    IF getInternalReader = "buffer"
    THEN LET src == r.internalByteBuffer.buf
             m == Min(w, Len(src)) IN
         [written |-> SubSeq(src, 1, m),
          err |-> IF Len(src) > w THEN "write" ELSE "nil",
          buf |-> Buf(SubSeq(src, m + 1, Len(src))),
          body |-> Body, reads |-> 0, panic |-> FALSE]
    ELSE IF r.RawResponse = NilPtr
    THEN [written |-> <<>>, err |-> "panic", buf |-> r.internalByteBuffer,
          body |-> Body, reads |-> 0, panic |-> TRUE]
    ELSE LET c == rawCopy(Body) IN
         IF Len(c.data) > w
         THEN [written |-> SubSeq(c.data, 1, w), err |-> "write",
               buf |-> r.internalByteBuffer, body |-> c.body, reads |-> 1, panic |-> FALSE]
         ELSE [written |-> c.data, err |-> c.err,
               buf |-> r.internalByteBuffer, body |-> c.body, reads |-> c.reads,
               panic |-> FALSE]

\* os.Create: the file exists, empty, with one more open handle.
createFile(f) == [f EXCEPT !.created = TRUE, !.data = <<>>, !.open = @ + 1]

\* The deferred fd.Close().
closeFile(f) == [f EXCEPT !.open = @ - 1, !.closes = @ + 1]

DownloadToFile ==
    /\ CanCall
    /\ calls' = calls + 1
    /\ \E createFails \in BOOLEAN : \E w \in WriteLimits :
        IF createFails
        THEN /\ last' = Ret("DownloadToFile", "create", <<>>, 0)
             /\ UNCHANGED <<r, Body, file, panicked, closeCount, rawReads>>
        ELSE LET c == fileCopy(w) IN
             /\ file' = closeFile([createFile(file) EXCEPT !.data = c.written])
             /\ r' = [r EXCEPT !.internalByteBuffer = c.buf]
             /\ rawReads' = rawReads + c.reads
             /\ IF r.RawResponse = NilPtr
                THEN /\ panicked' = TRUE
                     /\ Body' = c.body
                     /\ UNCHANGED closeCount
                     /\ last' = Ret("DownloadToFile", "panic", <<>>, 0)
                ELSE /\ panicked' = c.panic
                     /\ Body' = [c.body EXCEPT !.closed = TRUE]
                     /\ closeCount' = closeCount + 1
                     /\ last' = Ret("DownloadToFile", returned(c.err), <<>>, Len(c.written))
    /\ UNCHANGED bufferCreated

Next ==
    \/ Read
    \/ Close
    \/ DownloadToFile
    \/ Xml
    \/ Json
    \/ CallRespBytesBuffer
    \/ Bytes
    \/ String
    \/ ClearInternalBuffer

Spec == Init /\ [][Next]_vars

\* The accessors alone: the caller never uses the Read/Close pass-through.
NextAccessors ==
    \/ DownloadToFile
    \/ Xml
    \/ Json
    \/ CallRespBytesBuffer
    \/ Bytes
    \/ String
    \/ ClearInternalBuffer

SpecAccessors == Init /\ [][NextAccessors]_vars

\* ------------------------------------------------------------ properties
Buffered == r.internalByteBuffer # NilPtr
HasRaw == r.RawResponse # NilPtr
BufferingOps == {"respBytesBuffer", "Bytes", "String"}
ConsumingOps == BufferingOps \cup {"Json", "Xml", "DownloadToFile"}
\* A step that is one method call.
Call(op) == calls' = calls + 1 /\ last'.op = op

\* C1: on a Response built without a transport error, whatever accessors
\* are called, the raw stream's Close is not invoked a second time.
C1_CloseNotRepeated == r.Error = NIL => closeCount <= 1

\* C2: when respBytesBuffer returns an I/O error, the internal buffer is
\* nil afterwards, the partial bytes discarded.
C2_FailedBufferingLeavesNil ==
    (last.op = "respBytesBuffer" /\ last.err \in {"io", "closed"}) => ~Buffered

\* C3: built without error, Ok is true exactly for 200 <= StatusCode < 300.
C3_OkIffSuccessRange ==
    r.Error = NIL => (r.Ok <=> (r.StatusCode >= 200 /\ r.StatusCode < 300))

\* C4: ClearInternalBuffer on a nil buffer is a no-op: no panic, buffer nil.
C4_ClearOnNilIsNoop ==
    [][(~Buffered /\ Call("ClearInternalBuffer")) => (~panicked' /\ ~Buffered')]_vars

\* C5: respBytesBuffer on a raw-backed Response, whatever the declared
\* content length, does not panic and leaves in the buffer exactly the
\* bytes it read from the raw stream.
C5_ContentLengthIsHint ==
    [][(~Buffered /\ HasRaw /\ Call("respBytesBuffer")) =>
          /\ ~panicked'
          /\ r'.internalByteBuffer = Buf(SubSeq(Body.data, Body.pos + 1, Body'.pos))]_vars

\* C6: once a buffering call has returned on a Response with a raw stream,
\* the stream is closed, and a Read made after any buffering returns no
\* bytes and an error.
C6_ClosedAfterBuffering ==
    /\ (last.op \in BufferingOps /\ HasRaw /\ ~panicked) => Body.closed
    /\ (bufferCreated /\ last.op = "Read" /\ ~panicked) => (last.n = 0 /\ last.err # "nil")

\* C6 witness: a Read after a buffering that stopped at an I/O failure, with
\* bytes of the body still undelivered.
C6_Witness ==
    /\ bufferCreated /\ last.op = "Read" /\ last.prev \in BufferingOps
    /\ Body.pos < Len(Body.data)

\* C7: once the internal buffer has been created, no later accessor call
\* reads the raw stream.
C7_NoRawReadAfterBuffer == [][bufferCreated => rawReads' = rawReads]_vars

\* C8: respBytesBuffer called right after respBytesBuffer returns success,
\* reads nothing from the raw stream and leaves the buffer as it was.
C8_BufferingIdempotent ==
    [][(last.op = "respBytesBuffer" /\ Call("respBytesBuffer")) =>
          /\ last'.err = "nil"
          /\ rawReads' = rawReads
          /\ r'.internalByteBuffer = r.internalByteBuffer]_vars

\* C8 witness: a second respBytesBuffer in a row, on a buffer that holds bytes.
C8_Witness ==
    /\ last.op = "respBytesBuffer" /\ last.prev = "respBytesBuffer"
    /\ Buffered /\ r.internalByteBuffer # Buf(<<>>)

\* C9: right after ClearInternalBuffer, Bytes and String return an empty
\* result and respBytesBuffer reports no error.
C9_EmptyAfterClear ==
    (last.prev = "ClearInternalBuffer" /\ last.op \in BufferingOps) =>
        (last.ret = <<>> /\ last.err = "nil")

\* C10: a body-consuming call that returns on a Response with a raw stream
\* leaves the stream closed, on every exit path.
C10_ConsumingCloses ==
    (last.op \in ConsumingOps /\ HasRaw /\ ~panicked) => Body.closed

\* C11: right after buildResponse, exactly one of "Error is set" and
\* "RawResponse is present" holds; with Error set, Ok is false, StatusCode
\* is 0, Header is empty and there is no buffer; with Error nil, StatusCode
\* and Header are those of the exchange's response.
C11_ErrorXorRaw ==
    calls = 0 =>
        /\ (r.Error # NIL) # HasRaw
        /\ r.Error # NIL =>
              (~r.Ok /\ r.StatusCode = 0 /\ r.Header = NIL /\ ~Buffered)
        /\ r.Error = NIL =>
              (r.StatusCode = r.RawResponse.StatusCode /\ r.Header = r.RawResponse.Header)

\* C11 witness: a Response just built from a transport error.
C11_Witness == calls = 0 /\ r.Error = "transport" /\ ~HasRaw

\* The bytes left in the source getInternalReader() selects.
Remaining ==
    IF Buffered THEN r.internalByteBuffer.buf
    ELSE SubSeq(Body.data, Body.pos + 1, Len(Body.data))

\* C12: a DownloadToFile that returns nil leaves in the file exactly the
\* bytes that remained in the active source when it was called, and a
\* DownloadToFile that got past os.Create leaves no file handle open.
C12_FileHoldsSource ==
    [][Call("DownloadToFile") =>
          /\ (last'.err = "nil" => file'.data = Remaining)
          /\ (last'.err # "create" => (file'.created /\ file'.open = 0))]_vars

\* C12 witness: a successful download of a body of two bytes, handle closed.
C12_Witness ==
    /\ last.op = "DownloadToFile" /\ last.err = "nil"
    /\ Len(file.data) = 2 /\ file.open = 0

\* C13: DownloadToFile called with a nil internal buffer leaves it nil, on
\* success and on every error path.
C13_DownloadDoesNotBuffer ==
    [][(~Buffered /\ Call("DownloadToFile")) => ~Buffered']_vars

\* C13 witness: bytes were streamed from the raw body to the file and no
\* buffer exists.
C13_Witness ==
    /\ last.op = "DownloadToFile" /\ last.prev = "none" /\ last.n > 0
    /\ ~Buffered /\ ~bufferCreated

\* The selected source is at a clean end-of-stream: nothing left, no failure.
CleanEnd ==
    IF Buffered THEN r.internalByteBuffer.buf = <<>>
    ELSE HasRaw /\ ~Body.closed /\ Body.pos = Len(Body.data) /\ Body.failAt # Body.pos

\* The raw stream is selected and its next Read fails with an I/O error.
RawFails == ~Buffered /\ HasRaw /\ ~Body.closed /\ Body.failAt = Body.pos

\* C14: Json and Xml return nil when the decoder reports end-of-stream (an
\* empty body included) and the decoder's error unchanged otherwise;
\* DownloadToFile returns nil at end-of-stream, never end-of-stream as an
\* error, and the stream's I/O error when the copy fails.
C14_EOFIsSuccess ==
    [][/\ ((Call("Json") \/ Call("Xml")) /\ ~panicked') =>
            /\ Decode.err = "EOF" => last'.err = "nil"
            /\ Decode.err # "EOF" => last'.err = Decode.err
            /\ CleanEnd => last'.err = "nil"
            /\ RawFails => last'.err = "io"
       /\ (Call("DownloadToFile") /\ ~panicked' /\ last'.err # "create") =>
            /\ last'.err # "EOF"
            /\ CleanEnd => last'.err = "nil"
            /\ RawFails => last'.err = "io"]_vars

\* C14 witness: Json on a fresh Response with an empty body returned nil.
C14_Witness ==
    /\ last.op = "Json" /\ last.prev = "none" /\ last.err = "nil"
    /\ Body.data = <<>> /\ Body.failAt = NoFail /\ rawReads = 1

\* C15: a Bytes or String call whose respBytesBuffer returns an error
\* returns an empty result, no error, and does not panic.
C15_AccessorsSwallowError ==
    [][((Call("Bytes") \/ Call("String")) /\ respBytesBuffer.err \notin {"nil", "panic"}) =>
          (last'.ret = <<>> /\ last'.err = "nil" /\ ~panicked')]_vars

\* C15 witness: Bytes returned nothing although bytes had been read before
\* the stream failed.
C15_Witness ==
    /\ last.op = "Bytes" /\ last.prev = "none" /\ last.ret = <<>>
    /\ Buffered /\ r.internalByteBuffer # Buf(<<>>)

\* C16: on a fresh Response whose stream delivers its body without I/O
\* error, the first Bytes or String call returns exactly the body.
C16_FirstBytesIsBody ==
    (calls = 1 /\ last.op \in {"Bytes", "String"} /\ HasRaw /\ Body.failAt = NoFail) =>
        (~panicked /\ last.ret = Body.data)

\* C17: Json, Xml and DownloadToFile on a buffer-backed Response leave the
\* buffered content as it was.
C17_BufferReusable ==
    [][(Buffered /\ (Call("Json") \/ Call("Xml") \/ Call("DownloadToFile"))) =>
          r'.internalByteBuffer = r.internalByteBuffer]_vars

\* C18: after a first call that is a decode or a download, two
\* respBytesBuffer calls in a row report the same outcome.
C18_ExhaustedIsStable ==
    [][(/\ calls = 2 /\ last.prev \in {"Json", "Xml", "DownloadToFile"}
        /\ last.op = "respBytesBuffer" /\ Call("respBytesBuffer")) =>
          last'.err = last.err]_vars

\* C19: on a Response built from a transport error, Read, Close, Bytes,
\* String, Json, Xml and DownloadToFile do not panic.
C19_NoPanicOnErrorResponse ==
    (r.Error # NIL /\ last.op \in {"Read", "Close", "Bytes", "String", "Json", "Xml",
                                    "DownloadToFile"}) => ~panicked

====
